---- MODULE Spec2Model ----
(***************************************************************************)
(* Model of telephoto's capability-token service (src/securityUtils.js),   *)
(* of its JSON metadata store (src/imageStore.js) and of the server's      *)
(* routes on top of the two: direct access by token, and the session login *)
(* in front of the protected routes.                                       *)
(*                                                                         *)
(* JavaScript strings are sequences of one-character strings, so that      *)
(* split(':'), parseInt, template literals and === are computed, not       *)
(* assumed.  JavaScript numbers are records [nan, val] so that NaN and its *)
(* comparisons (always false) are part of the model.                       *)
(***************************************************************************)
EXTENDS Integers, Sequences, FiniteSets, TLC

VARIABLES
    nowMs,            \* Date.now(): the wall clock, in milliseconds
    apiSecretKeyEnv,  \* process.env.API_SECRET_KEY: [set, val]
    issued,           \* outcome of the latest generateSecureToken call
    lastVerify,       \* the verifySecureToken call being answered, if any
    file,             \* data/images.json: "missing", "ok" or "truncated"
    images,           \* the sequence of records in data/images.json
    usedIds,          \* ids uuidv4() has produced so far
    pending,          \* saveImage/deleteImage calls suspended at their await
    resp,             \* what the latest completed store call gave its caller
    hist,             \* what the store's callers have been told so far
    galleryPasswordEnv, \* process.env.GALLERY_PASSWORD: [set, val]
    sessions,         \* the session store: what each session cookie stands for
    inflight,         \* admitted handlers awaiting an answer from Telegram
    access            \* the requests requireAuth has seen: count and latest

tokenVars == <<nowMs, apiSecretKeyEnv, issued, lastVerify>>
storeVars == <<file, images, usedIds, pending, resp, hist>>
authVars == <<galleryPasswordEnv, sessions, inflight, access>>
vars == <<nowMs, apiSecretKeyEnv, issued, lastVerify,
          file, images, usedIds, pending, resp, hist,
          galleryPasswordEnv, sessions, inflight, access>>

-----------------------------------------------------------------------------
(* Bounds of the model *)

StartMs == 10000        \* the clock's value when the process starts
MaxNowMs == 13000       \* the clock stops here
TickMs == 500           \* one clock step
MaxTtl == 2             \* largest ttl (seconds) passed to generateSecureToken
MaxImages == 3          \* longest images.json

-----------------------------------------------------------------------------
(* JavaScript values *)

Undefined == <<"undefined">>   \* the value undefined; as text, "undefined"

Num(n) == [nan |-> FALSE, val |-> n]
NaN == [nan |-> TRUE, val |-> 0]

\* a > b on JS numbers: false whenever either side is NaN
NumGt(a, b) == ~a.nan /\ ~b.nan /\ a.val > b.val

\* a + b on JS numbers
NumAdd(a, b) == IF a.nan \/ b.nan THEN NaN ELSE Num(a.val + b.val)

DigitChars == <<"0", "1", "2", "3", "4", "5", "6", "7", "8", "9">>

IsDigit(c) == \E i \in 1..10 : DigitChars[i] = c

DigitVal(c) == (CHOOSE i \in 1..10 : DigitChars[i] = c) - 1

RECURSIVE NatToStr(_)
NatToStr(n) ==
    IF n < 10 THEN <<DigitChars[n + 1]>>
    ELSE NatToStr(n \div 10) \o <<DigitChars[(n % 10) + 1]>>

\* String(x) of a JS number, as a template literal `${x}` renders it
NumToStr(x) ==
    IF x.nan THEN <<"N", "a", "N">>
    ELSE IF x.val < 0 THEN <<"-">> \o NatToStr(-x.val)
    ELSE NatToStr(x.val)

RECURSIVE DigitPrefix(_)
DigitPrefix(s) ==
    IF s = <<>> \/ ~IsDigit(Head(s)) THEN <<>>
    ELSE <<Head(s)>> \o DigitPrefix(Tail(s))

RECURSIVE DigitsVal(_, _)
DigitsVal(s, acc) ==
    IF s = <<>> THEN acc ELSE DigitsVal(Tail(s), acc * 10 + DigitVal(Head(s)))

RECURSIVE SkipSpaces(_)
SkipSpaces(s) ==
    IF s # <<>> /\ Head(s) = " " THEN SkipSpaces(Tail(s)) ELSE s

\* parseInt(s, 10): leading blanks skipped, an optional sign, then the longest
\* run of digits; NaN when there is none.  Anything after the digits is ignored.
ParseInt(s) ==
    LET t == SkipSpaces(s)
        neg == t # <<>> /\ Head(t) = "-"
        signed == t # <<>> /\ Head(t) \in {"-", "+"}
        body == IF signed THEN Tail(t) ELSE t
        ds == DigitPrefix(body)
    IN  IF ds = <<>> THEN NaN
        ELSE Num(IF neg THEN -DigitsVal(ds, 0) ELSE DigitsVal(ds, 0))

RECURSIVE Split(_)
\* s.split(':'): the fields between separators; "" gives one empty field
Split(s) ==
    IF \A i \in 1..Len(s) : s[i] # ":" THEN <<s>>
    ELSE LET k == CHOOSE i \in 1..Len(s) :
                     s[i] = ":" /\ \A j \in 1..(i - 1) : s[j] # ":"
         IN  <<SubSeq(s, 1, k - 1)>> \o Split(SubSeq(s, k + 1, Len(s)))

\* const [a, b, c] = arr: a position past the end is undefined
Destructure(arr, i) == IF i <= Len(arr) THEN arr[i] ELSE Undefined

-----------------------------------------------------------------------------
(* crypto.createHmac('sha256', key).update(data).digest('hex') *)

DefaultKey == "D"       \* stands for 'telegram-photo-cdn-secret-key-change-me'

UndefinedKey == "<undefined>"

\* one output character of the MAC: a different one for each key and input
HexChar(key, c) == key \o "#" \o c

\* The MAC is idealised as collision free: distinct (key, data) give distinct
\* digests, and a digest never holds the separator.
HmacHex(key, data) == [i \in 1..Len(data) |-> HexChar(key, data[i])]

\* createHmac throws a TypeError when the key is undefined
HmacThrows(key) == key = UndefinedKey

-----------------------------------------------------------------------------
(* securityUtils.js: configuration *)

EnvUnset == [set |-> FALSE, val |-> ""]

\* the values process.env.API_SECRET_KEY can have when the process starts
EnvValues == {EnvUnset, [set |-> TRUE, val |-> ""], [set |-> TRUE, val |-> "K"]}

\* a fallback that is never taken: the environment's value, whatever it is
EnvOr_NoDefault(env, default) == IF env.set THEN env.val ELSE UndefinedKey

\* process.env.X || default: undefined and "" are falsy, so both give default
EnvOr(env, default) == IF env.set /\ env.val # "" THEN env.val ELSE default

\* the browsers that talk to the server, one session cookie each
Sids == {"s1", "s2"}

\* req.session of a cookie the store holds nothing for: a fresh session
\* object without isAuthenticated (saveUninitialized: false)
NoSession == [isAuthenticated |-> FALSE]

\* no request has reached requireAuth yet
NoAccess == [n |-> 0, sid |-> "none", route |-> "none", outcome |-> "none"]

\* const SECRET_KEY = process.env.API_SECRET_KEY || '...change-me'
SECRET_KEY == EnvOr(apiSecretKeyEnv, DefaultKey)

\* Math.floor(ms / 1000)
FloorSeconds(ms) == Num(ms \div 1000)

\* Math.floor(Date.now() / 1000)
CurrentTimestamp == FloorSeconds(nowMs)

\* ids of records: uuidv4() strings, which hold no ':'
RecordIds == {<<"a">>, <<"b">>}

\* the ids callers ask for (req.params.id): record ids, and one that is none
RequestIds == RecordIds \cup {<<"a", ":", "1">>}

\* the expiryTime arguments tried: -1 .. MaxTtl seconds, and NaN, which is
\* what parseInt gives TOKEN_EXPIRY when the environment's value is no number
TtlValues == {Num(n) : n \in (-1)..MaxTtl} \cup {NaN}

-----------------------------------------------------------------------------
(* securityUtils.js: generateSecureToken *)

\* generateSecureToken(imageId, expiryTime): [threw, token, expiresAt]
generateSecureToken(imageId, expiryTime) ==
    LET expiresAt == NumAdd(CurrentTimestamp, expiryTime)
        data == imageId \o <<":">> \o NumToStr(expiresAt)
    IN  IF HmacThrows(SECRET_KEY)
        THEN [threw |-> TRUE, token |-> <<>>, expiresAt |-> NaN]
        ELSE [threw |-> FALSE,
              token |-> data \o <<":">> \o HmacHex(SECRET_KEY, data),
              expiresAt |-> expiresAt]

-----------------------------------------------------------------------------
(* securityUtils.js: verifySecureToken *)

\* a JS value passed as `token`: a string, or something with no split method
TokenStr(s) == [isString |-> TRUE, chars |-> s]
NotAString == [isString |-> FALSE, chars |-> <<>>]

\* the expiry test with the boundary on the wrong side
IsExpired_Inclusive(currentTimestamp, expiryTimestamp) ==
    \/ NumGt(currentTimestamp, ParseInt(expiryTimestamp))
    \/ currentTimestamp = ParseInt(expiryTimestamp)

\* the expiry test left out
IsExpired_Never(currentTimestamp, expiryTimestamp) == FALSE

\* currentTimestamp > parseInt(expiryTimestamp, 10)
IsExpired(currentTimestamp, expiryTimestamp) ==
    NumGt(currentTimestamp, ParseInt(expiryTimestamp))

\* the id test left out
IdMismatch_Never(tokenImageId, imageId) == FALSE

\* tokenImageId !== imageId
IdMismatch(tokenImageId, imageId) == tokenImageId # imageId

\* only the lengths compared
SignatureEquals_SameLength(signature, expectedSignature) ==
    Len(signature) = Len(expectedSignature)

\* the comparison left out
SignatureEquals_Always(signature, expectedSignature) == TRUE

\* signature === expectedSignature
SignatureEquals(signature, expectedSignature) == signature = expectedSignature

\* token.split(':')
TokenFields(chars) == Split(chars)

\* the body of the try block, run when Date.now() is ms and SECRET_KEY is
\* key: "true", "false", or "throw" when a statement raises (token.split on
\* a value that has no such method, createHmac)
verifyTry(token, imageId, ms, key) ==
    IF ~token.isString THEN "throw"
    ELSE
        LET parts == TokenFields(token.chars)
            tokenImageId == Destructure(parts, 1)
            expiryTimestamp == Destructure(parts, 2)
            signature == Destructure(parts, 3)
            data == tokenImageId \o <<":">> \o expiryTimestamp
        IN  IF IdMismatch(tokenImageId, imageId) THEN "false"
            ELSE IF IsExpired(FloorSeconds(ms), expiryTimestamp) THEN "false"
            ELSE IF HmacThrows(key) THEN "throw"
            ELSE IF SignatureEquals(signature, HmacHex(key, data))
                 THEN "true"
                 ELSE "false"

\* the function without its try/catch
verifyCaught_NoCatch(token, imageId, ms, key) ==
    verifyTry(token, imageId, ms, key)

\* try { ... } catch (error) { return false; }
verifyCaught(token, imageId, ms, key) ==
    IF verifyTry(token, imageId, ms, key) = "throw" THEN "false"
    ELSE verifyTry(token, imageId, ms, key)

\* verifySecureToken(token, imageId), called now
verifySecureToken(token, imageId) ==
    verifyCaught(token, imageId, nowMs, SECRET_KEY)

-----------------------------------------------------------------------------
(* The token service as a state machine: the clock advances, a token is     *)
(* issued, and callers present token strings for verification.  Both        *)
(* functions are synchronous, so nothing else happens during a call.        *)

NoIssue == [status |-> "none", imageId |-> <<>>, ttl |-> NaN,
            token |-> <<>>, expiresAt |-> NaN, atMs |-> 0]

NoVerify == [status |-> "none", token |-> NotAString, imageId |-> <<>>,
             result |-> "false"]

ReplaceAt(s, i, c) == [s EXCEPT ![i] = c]

\* `${imageId}:${expiresAt}` of the issued token
IssuedData == issued.imageId \o <<":">> \o NumToStr(issued.expiresAt)

\* where the signature segment of the issued token starts
SigStart == Len(IssuedData) + 2

\* characters a signature character is changed into
MutChars == {"0", ":", HexChar(SECRET_KEY, "0")}

\* the issued token with one character of its signature segment changed
SigMutations ==
    {ReplaceAt(issued.token, p[1], p[2]) :
        p \in {q \in (SigStart..Len(issued.token)) \X MutChars :
                  issued.token[q[1]] # q[2]}}

\* the issued token cut to fewer fields, or with fields appended
FieldCountVariants ==
    {issued.imageId, IssuedData,
     issued.token \o <<":">>, issued.token \o <<":", "x">>}

\* expiry fields that are no decimal integer
BadExpiries == {<<"x">>, <<"1", "9", "x">>, <<>>}

\* a three-field token built by hand: expiry text e, signed with key k
Forged(id, e, k) ==
    id \o <<":">> \o e \o <<":">> \o HmacHex(k, id \o <<":">> \o e)

ForgedTokens ==
    {Forged(p[1], p[2], SECRET_KEY) : p \in RecordIds \X BadExpiries}
    \cup {Forged(id, <<"9", "9">>, "X") : id \in RecordIds}

\* the token values presented for verification in the current state
CandidateTokens ==
    {TokenStr(s) : s \in
        (IF issued.status = "ok"
         THEN {issued.token} \cup SigMutations \cup FieldCountVariants
         ELSE {})
        \cup ForgedTokens \cup {<<>>, <<"x">>}}
    \cup {NotAString}

\* the process has started; the store part is idle throughout
TokenInit ==
    /\ nowMs = StartMs
    /\ apiSecretKeyEnv \in EnvValues
    /\ issued = NoIssue
    /\ lastVerify = NoVerify
    /\ file = "missing"
    /\ images = <<>>
    /\ usedIds = {}
    /\ pending = <<>>
    /\ resp = [op |-> "none", status |-> "none", raw |-> FALSE, id |-> <<>>,
               records |-> <<>>, io |-> "none"]
    /\ hist = [appended |-> {}, deleted |-> {}, loggedIn |-> {}]
    /\ galleryPasswordEnv = EnvUnset
    /\ sessions = [s \in Sids |-> NoSession]
    /\ inflight = <<>>
    /\ access = NoAccess

\* Date.now() moves on
Tick ==
    /\ lastVerify.status = "none"
    /\ nowMs + TickMs <= MaxNowMs
    /\ nowMs' = nowMs + TickMs
    /\ UNCHANGED <<apiSecretKeyEnv, issued, lastVerify>>
    /\ UNCHANGED storeVars
    /\ UNCHANGED authVars

\* a call generateSecureToken(imageId, expiryTime)
Issue ==
    /\ lastVerify.status = "none"
    /\ \E imageId \in RecordIds, expiryTime \in TtlValues :
        LET r == generateSecureToken(imageId, expiryTime)
        IN  issued' = [status |-> IF r.threw THEN "error" ELSE "ok",
                       imageId |-> imageId, ttl |-> expiryTime,
                       token |-> r.token, expiresAt |-> r.expiresAt,
                       atMs |-> nowMs]
    /\ UNCHANGED <<nowMs, apiSecretKeyEnv, lastVerify>>
    /\ UNCHANGED storeVars
    /\ UNCHANGED authVars

\* a call verifySecureToken(token, imageId)
Verify ==
    /\ lastVerify.status = "none"
    /\ \E token \in CandidateTokens, imageId \in RequestIds :
        lastVerify' = [status |-> "done", token |-> token,
                       imageId |-> imageId,
                       result |-> verifySecureToken(token, imageId)]
    /\ UNCHANGED <<nowMs, apiSecretKeyEnv, issued>>
    /\ UNCHANGED storeVars
    /\ UNCHANGED authVars

\* the caller has taken the answer
VerifyReturn ==
    /\ lastVerify.status = "done"
    /\ lastVerify' = NoVerify
    /\ UNCHANGED <<nowMs, apiSecretKeyEnv, issued>>
    /\ UNCHANGED storeVars
    /\ UNCHANGED authVars

TokenNext == Tick \/ Issue \/ Verify \/ VerifyReturn

TokenSpec == TokenInit /\ [][TokenNext]_vars

-----------------------------------------------------------------------------
(* Properties of the token service, checked under TokenSpec *)

IssuedToken == TokenStr(issued.token)

\* whether token record t verifies against its own id at clock ms, the
\* environment being env
ValidAt(t, ms, env) ==
    verifyCaught(TokenStr(t.token), t.imageId, ms, EnvOr(env, DefaultKey))
        = "true"

\* what verifySecureToken answers now for the issued token and its own id
IssuedValid == ValidAt(issued, nowMs, apiSecretKeyEnv)

VerifiedIssued ==
    /\ issued.status = "ok"
    /\ lastVerify.status = "done"
    /\ lastVerify.token = IssuedToken

\* the three conditions of C2, read off the token's first three fields
SignatureMatches(f) ==
    Len(f) >= 3 /\ f[3] = HmacHex(SECRET_KEY, f[1] \o <<":">> \o f[2])

ExpiryInPast(f) ==
    Len(f) >= 2 /\ ~ParseInt(f[2]).nan
                /\ ParseInt(f[2]).val < CurrentTimestamp.val

ThreeChecks(token, imageId) ==
    /\ token.isString
    /\ SignatureMatches(Split(token.chars))
    /\ ~ExpiryInPast(Split(token.chars))
    /\ Split(token.chars)[1] = imageId

VerifiedAtIssuance ==
    /\ VerifiedIssued
    /\ lastVerify.imageId = issued.imageId
    /\ nowMs = issued.atMs

\* C3 as stated: for all ids and all ttl values, the token just issued
\* verifies against its id at the instant of issuance.
C3_RoundTripAnyTtl ==
    VerifiedAtIssuance => lastVerify.result = "true"

\* C3 as amended: for every record id and every ttl that is not negative,
\* the token just issued verifies against its id at the instant of issuance.
C3_RoundTripNonNegativeTtl ==
    (VerifiedAtIssuance /\ ~(~issued.ttl.nan /\ issued.ttl.val < 0))
        => lastVerify.result = "true"

C3_Witness ==
    /\ VerifiedAtIssuance
    /\ issued.ttl = Num(0)
    /\ lastVerify.result = "true"

NumericExpiry == issued.status = "ok" /\ ~issued.expiresAt.nan

\* token record t, numeric expiry: valid at ms exactly when not past expiry
ValidIffNotPast(t, ms, env) ==
    (t.status = "ok" /\ ~t.expiresAt.nan) =>
        (ValidAt(t, ms, env) <=> FloorSeconds(ms).val <= t.expiresAt.val)

\* the answer lv given at ms for token record t and its own id is the same
AnswerIffNotPast(t, lv, ms) ==
    (t.status = "ok" /\ ~t.expiresAt.nan /\ lv.status = "done"
        /\ lv.token = TokenStr(t.token) /\ lv.imageId = t.imageId)
        => ((lv.result = "true") <=> FloorSeconds(ms).val <= t.expiresAt.val)

\* C4: while the clock advances, an issued token verifies against its id
\* exactly at the instants with now <= expiresAt (the boundary included),
\* and once it is invalid by expiry it stays invalid.  (Stated of every step:
\* the first two conjuncts are about the state the step reaches.)
C4_ValidUntilExpiry ==
    [][/\ ValidIffNotPast(issued', nowMs', apiSecretKeyEnv')
       /\ AnswerIffNotPast(issued', lastVerify', nowMs')
       /\ (NumericExpiry /\ issued' = issued /\ ~IssuedValid
               /\ CurrentTimestamp.val > issued.expiresAt.val)
            => ~ValidAt(issued', nowMs', apiSecretKeyEnv')]_vars

C4_Witness ==
    /\ VerifiedIssued
    /\ NumericExpiry
    /\ lastVerify.imageId = issued.imageId
    /\ nowMs > issued.atMs
    /\ CurrentTimestamp.val = issued.expiresAt.val
    /\ lastVerify.result = "true"

\* C5: a token issued for id A is rejected for every id B other than A, at
\* any time.
C5_NotTransferable ==
    /\ issued.status = "ok" =>
        \A B \in RequestIds \ {issued.imageId} :
            verifySecureToken(IssuedToken, B) = "false"
    /\ (VerifiedIssued /\ lastVerify.imageId # issued.imageId)
        => lastVerify.result = "false"

C5_Witness ==
    /\ VerifiedIssued
    /\ IssuedValid
    /\ lastVerify.imageId # issued.imageId
    /\ lastVerify.result = "false"

\* C6: a valid token with any one character of its signature segment
\* changed, the other segments as issued, is rejected.
C6_SignatureMutationRejected ==
    (issued.status = "ok" /\ lastVerify.status = "done"
        /\ lastVerify.imageId = issued.imageId
        /\ lastVerify.token.isString
        /\ lastVerify.token.chars \in SigMutations
        /\ IssuedValid)
        => lastVerify.result = "false"

C6_Witness ==
    /\ issued.status = "ok"
    /\ lastVerify.status = "done"
    /\ lastVerify.imageId = issued.imageId
    /\ lastVerify.token.isString
    /\ lastVerify.token.chars \in SigMutations
    /\ IssuedValid
    /\ lastVerify.result = "false"

\* C7: every token string whose split on ':' does not give exactly three
\* fields is rejected.
C7_WrongFieldCountRejected ==
    (lastVerify.status = "done" /\ lastVerify.token.isString
        /\ Len(Split(lastVerify.token.chars)) # 3)
        => lastVerify.result = "false"

\* an optional sign followed by one or more digits, and nothing else
IsDecimalInteger(s) ==
    LET body == IF s # <<>> /\ Head(s) = "-" THEN Tail(s) ELSE s
    IN  body # <<>> /\ \A i \in 1..Len(body) : IsDigit(body[i])

\* C8: every token whose expiry field is not a decimal integer is rejected,
\* whatever its signature field is.
C8_NonDecimalExpiryRejected ==
    (lastVerify.status = "done" /\ lastVerify.token.isString
        /\ Len(Split(lastVerify.token.chars)) >= 2
        /\ ~IsDecimalInteger(Split(lastVerify.token.chars)[2]))
        => lastVerify.result = "false"

\* C9: verifySecureToken answers true or false for every token value, a
\* string or not, and never raises.
C9_VerifyIsTotal ==
    lastVerify.status = "done" => lastVerify.result \in {"true", "false"}

C9_Witness ==
    /\ lastVerify.status = "done"
    /\ lastVerify.token = NotAString
    /\ lastVerify.result = "false"

KeyMissing == ~apiSecretKeyEnv.set \/ apiSecretKeyEnv.val = ""

\* C10 as stated: with the secret key unset or empty no token is produced.
C10_NoTokenWithoutKey ==
    KeyMissing => issued.status # "ok"

\* C10 as amended: with the secret key unset or empty, issuance succeeds and
\* signs with the built-in default key; with the key set it signs with that
\* key; generateSecureToken fails in neither case.
C10_DefaultKeyFallback ==
    /\ issued.status # "error"
    /\ issued.status = "ok" =>
        Split(issued.token)[3] =
            HmacHex(IF KeyMissing THEN DefaultKey ELSE apiSecretKeyEnv.val,
                    IssuedData)

C10_Witness ==
    /\ ~apiSecretKeyEnv.set
    /\ issued.status = "ok"
    /\ IssuedValid

-----------------------------------------------------------------------------
(* imageStore.js: records and the sanitized view.  A record is a function   *)
(* from the names of the fields it has to their values; every value is a    *)
(* sequence: a string's characters, or the one-word text of another value.  *)

SanitizedFields ==
    {"id", "createdAt", "originalName", "mimetype", "size", "isDocument",
     "fileType"}

SensitiveFields == {"fileId", "filePath", "cdnUrl", "messageId"}

True == <<"true">>
False == <<"false">>

\* obj.f: undefined when the object has no such field
Get(obj, f) == IF f \in DOMAIN obj THEN obj[f] ELSE Undefined

\* v is truthy
Truthy(v) == v \notin {Undefined, False, <<>>}

StartsWith(s, p) == Len(s) >= Len(p) /\ SubSeq(s, 1, Len(p)) = p

Includes(s, p) ==
    \E i \in 0..(Len(s) - Len(p)) : SubSeq(s, i + 1, i + Len(p)) = p

MimePng == <<"i", "m", "a", "g", "e", "/", "p", "n", "g">>
MimePdf == <<"a", "p", "p", "l", "i", "c", "a", "t", "i", "o", "n", "/", "p", "d", "f">>
MimeZip == <<"a", "p", "p", "l", "i", "c", "a", "t", "i", "o", "n", "/", "z", "i", "p">>

\* mimetype.startsWith on undefined raises a TypeError
getFileTypeThrows(mimetype) == mimetype = Undefined

\* getFileType(mimetype)
getFileType(mimetype) ==
    IF StartsWith(mimetype, <<"i", "m", "a", "g", "e", "/">>) THEN <<"image">>
    ELSE IF StartsWith(mimetype, <<"v", "i", "d", "e", "o", "/">>) THEN <<"video">>
    ELSE IF StartsWith(mimetype, <<"a", "u", "d", "i", "o", "/">>) THEN <<"audio">>
    ELSE IF mimetype = MimePdf THEN <<"pdf">>
    ELSE IF Includes(mimetype, <<"w", "o", "r", "d">>) \/ Includes(mimetype, <<"d", "o", "c", "u", "m", "e", "n", "t">>)
         THEN <<"document">>
    ELSE IF Includes(mimetype, <<"e", "x", "c", "e", "l">>) \/ Includes(mimetype, <<"s", "p", "r", "e", "a", "d", "s", "h", "e", "e", "t">>)
         THEN <<"spreadsheet">>
    ELSE IF Includes(mimetype, <<"p", "o", "w", "e", "r", "p", "o", "i", "n", "t">>)
            \/ Includes(mimetype, <<"p", "r", "e", "s", "e", "n", "t", "a", "t", "i", "o", "n">>)
         THEN <<"presentation">>
    ELSE IF Includes(mimetype, <<"z", "i", "p">>) \/ Includes(mimetype, <<"r", "a", "r">>)
            \/ Includes(mimetype, <<"7", "z">>)
         THEN <<"archive">>
    ELSE <<"file">>

\* a view that copies the record and adds the derived field
Sanitize_Spread(img) ==
    [f \in DOMAIN img \cup {"fileType"} |->
        IF f = "fileType" THEN getFileType(Get(img, "mimetype")) ELSE img[f]]

\* the object getAllImages builds for one record
Sanitize(img) ==
    [id |-> Get(img, "id"),
     createdAt |-> Get(img, "createdAt"),
     originalName |-> Get(img, "originalName"),
     mimetype |-> Get(img, "mimetype"),
     size |-> Get(img, "size"),
     isDocument |-> IF Truthy(Get(img, "isDocument"))
                    THEN Get(img, "isDocument") ELSE False,
     fileType |-> getFileType(Get(img, "mimetype"))]

\* getAllImages() over the array _getAllImagesRaw() read: [threw, list]
getAllImages(raw) ==
    IF \E i \in 1..Len(raw) : getFileTypeThrows(Get(raw[i], "mimetype"))
    THEN [threw |-> TRUE, list |-> <<>>]
    ELSE [threw |-> FALSE, list |-> [i \in 1..Len(raw) |-> Sanitize(raw[i])]]

\* list.find(img => img.id === id) || null, as a list of at most one record
FindById(list, id) ==
    LET hits == SelectSeq(list, LAMBDA img : Get(img, "id") = id)
    IN  IF hits = <<>> THEN <<>> ELSE <<Head(hits)>>

\* ids uuidv4() can give
Uuids == RecordIds \cup {<<"c">>}

\* the metadata the upload route passes to saveImage
UploadPng ==
    [originalName |-> <<"a.png">>, mimetype |-> MimePng, size |-> <<"1024">>,
     fileId |-> <<"F1">>, filePath |-> <<"documents/1">>,
     messageId |-> <<"7">>, cdnUrl |-> <<"tg://1">>, isDocument |-> True]

\* metadata that carries the generated fields itself, and one unknown field
CarriesGenerated ==
    [id |-> <<"a">>, createdAt |-> <<"1">>, fileType |-> <<"video">>,
     originalName |-> <<"c.zip">>, mimetype |-> MimeZip, size |-> <<"1">>,
     cdnUrl |-> <<"tg://3">>, note |-> <<"n">>]

\* metadata with no mimetype
NoMimetype == [originalName |-> <<"d">>, cdnUrl |-> <<"tg://4">>]

ImageDatas == {UploadPng, CarriesGenerated, NoMimetype}

\* { id, createdAt, fileType, ...imageData }: imageData's fields win
NewImage(imageId, imageData) ==
    LET generated ==
            [id |-> imageId,
             createdAt |-> NumToStr(Num(nowMs)),
             fileType |-> getFileType(Get(imageData, "mimetype"))]
    IN  [f \in DOMAIN generated \cup DOMAIN imageData |->
            IF f \in DOMAIN imageData THEN imageData[f] ELSE generated[f]]

-----------------------------------------------------------------------------------------------------------------------------------------------------
(* The file system under the store.  A call into fs either completes or     *)
(* throws; a writeFileSync that throws has either left the file as it was   *)
(* or has already truncated it, and a truncated images.json does not parse. *)

FsOutcomes == {"done", "fails"}
WriteOutcomes == {"done", "fails", "truncates"}

\* fs.writeFileSync(imagesFilePath, JSON.stringify({ images: content }))
writeFileSync(outcome, content, oldFile, oldImages) ==
    CASE outcome = "done" ->
            [threw |-> FALSE, file |-> "ok", images |-> content]
      [] outcome = "fails" ->
            [threw |-> TRUE, file |-> oldFile, images |-> oldImages]
      [] outcome = "truncates" ->
            [threw |-> TRUE, file |-> "truncated", images |-> <<>>]

\* a reader that answers an unreadable file with an empty collection
getAllImagesRaw_Swallow(oldFile, oldImages, create, read) ==
    LET made == IF oldFile = "missing"
                THEN writeFileSync(create, <<>>, oldFile, oldImages)
                ELSE [threw |-> FALSE, file |-> oldFile, images |-> oldImages]
        failed == made.threw \/ read = "fails" \/ made.file = "truncated"
    IN  [threw |-> FALSE,
         io |-> IF made.threw THEN "create"
                ELSE IF read = "fails" THEN "read"
                ELSE IF made.file = "truncated" THEN "parse" ELSE "none",
         list |-> IF failed THEN <<>> ELSE made.images,
         file |-> made.file, images |-> made.images]

\* _getAllImagesRaw(): the file created if missing, read and parsed;
\* whatever throws is rethrown as 'Failed to retrieve images'
getAllImagesRaw(oldFile, oldImages, create, read) ==
    LET made == IF oldFile = "missing"
                THEN writeFileSync(create, <<>>, oldFile, oldImages)
                ELSE [threw |-> FALSE, file |-> oldFile, images |-> oldImages]
        failed == made.threw \/ read = "fails" \/ made.file = "truncated"
    IN  [threw |-> failed,
         io |-> IF made.threw THEN "create"
                ELSE IF read = "fails" THEN "read"
                ELSE IF made.file = "truncated" THEN "parse" ELSE "none",
         list |-> IF failed THEN <<>> ELSE made.images,
         file |-> made.file, images |-> made.images]

\* getImageById(id, raw) over what _getAllImagesRaw() gave: [threw, records],
\* records being <<>> for null; whatever throws is rethrown as
\* 'Failed to retrieve file'
getImageById(all, id, raw) ==
    LET r == IF all.threw THEN [threw |-> TRUE, list |-> <<>>]
             ELSE IF raw THEN [threw |-> FALSE, list |-> all.list]
             ELSE getAllImages(all.list)
    IN  [threw |-> r.threw,
         records |-> IF r.threw THEN <<>> ELSE FindById(r.list, id)]

-----------------------------------------------------------------------------
(* The store as a state machine.  saveImage and deleteImage read the file,  *)
(* suspend at their await, and write when they resume; suspended calls      *)
(* resume in the order they were made.                                      *)

NoResp == [op |-> "none", status |-> "none", raw |-> FALSE, id |-> <<>>,
           records |-> <<>>, io |-> "none"]

NoData == [originalName |-> <<>>]

NoHist == [appended |-> {}, deleted |-> {}, loggedIn |-> {}]

\* uuidv4(): an id never produced before.  <<"b">> and <<"c">> occur in no
\* input, so they are interchangeable and <<"b">> is handed out first.
uuidv4(used) ==
    {u \in Uuids \ used : u = <<"c">> => <<"b">> \in used}

\* the requests that can be inside the store at once
Callers == {"c1", "c2"}

\* no images.json yet; the token part is idle throughout
StoreInit ==
    /\ file = "missing"
    /\ images = <<>>
    /\ usedIds = {}
    /\ pending = <<>>
    /\ resp = NoResp
    /\ hist = NoHist
    /\ nowMs = StartMs
    /\ apiSecretKeyEnv = EnvUnset
    /\ issued = NoIssue
    /\ lastVerify = NoVerify
    /\ galleryPasswordEnv = EnvUnset
    /\ sessions = [s \in Sids |-> NoSession]
    /\ inflight = <<>>
    /\ access = NoAccess

\* getAllImages(), whoever calls it
GetAllImagesBody ==
    /\ resp.op = "none"
    /\ \E create \in WriteOutcomes, read \in FsOutcomes :
        LET raw == getAllImagesRaw(file, images, create, read)
            r == IF raw.threw THEN [threw |-> TRUE, list |-> <<>>]
                 ELSE getAllImages(raw.list)
        IN  /\ resp' = [NoResp EXCEPT !.op = "getAllImages",
                           !.status = IF r.threw THEN "error" ELSE "ok",
                           !.records = r.list, !.io = raw.io]
            /\ file' = raw.file
            /\ images' = raw.images
    /\ UNCHANGED <<usedIds, pending, hist>>
    /\ UNCHANGED tokenVars

\* getAllImages()
GetAllImages == GetAllImagesBody /\ UNCHANGED authVars

\* getImageById(id, raw)
GetImageById ==
    /\ resp.op = "none"
    /\ \E id \in Uuids, raw \in BOOLEAN,
          create \in WriteOutcomes, read \in FsOutcomes :
        LET all == getAllImagesRaw(file, images, create, read)
            r == getImageById(all, id, raw)
        IN  /\ resp' = [NoResp EXCEPT !.op = "getImageById", !.raw = raw,
                           !.id = id,
                           !.status = IF r.threw THEN "error"
                                      ELSE IF r.records = <<>>
                                           THEN "null" ELSE "ok",
                           !.records = r.records,
                           !.io = all.io]
            /\ file' = all.file
            /\ images' = all.images
    /\ UNCHANGED <<usedIds, pending, hist>>
    /\ UNCHANGED tokenVars
    /\ UNCHANGED authVars

\* saveImage(imageData), up to its await: a fresh id, the file read.  A
\* read that throws makes the call fail with 'Failed to save file metadata'.
SaveImageOf(imageData) ==
    /\ resp.op = "none"
    /\ Len(pending) < Cardinality(Callers)
    /\ Len(images) < MaxImages
    /\ \E imageId \in uuidv4(usedIds),
          create \in WriteOutcomes, read \in FsOutcomes :
        LET raw == getAllImagesRaw(file, images, create, read)
        IN  /\ usedIds' = usedIds \cup {imageId}
            /\ file' = raw.file
            /\ images' = raw.images
            /\ IF raw.threw
               THEN /\ resp' = [NoResp EXCEPT !.op = "saveImage",
                                   !.status = "error", !.io = raw.io]
                    /\ pending' = pending
               ELSE /\ resp' = resp
                    /\ pending' = Append(pending,
                            [op |-> "save", id |-> imageId,
                             data |-> imageData, snapshot |-> raw.list])
    /\ UNCHANGED hist
    /\ UNCHANGED tokenVars

\* saveImage called with any metadata object
SaveImageCall ==
    /\ \E imageData \in ImageDatas : SaveImageOf(imageData)
    /\ UNCHANGED authVars

\* saveImage after its await: the record built, pushed, the file rewritten
SaveImageResume ==
    /\ resp.op = "none"
    /\ pending # <<>>
    /\ Head(pending).op = "save"
    /\ LET c == Head(pending)
           newImage == NewImage(c.id, c.data)
       IN  IF getFileTypeThrows(Get(c.data, "mimetype"))
           THEN /\ resp' = [NoResp EXCEPT !.op = "saveImage",
                               !.status = "error"]
                /\ UNCHANGED <<file, images, hist>>
           ELSE \E write \in WriteOutcomes :
                LET w == writeFileSync(write, Append(c.snapshot, newImage),
                                       file, images)
                IN  /\ file' = w.file
                    /\ images' = w.images
                    /\ resp' = IF w.threw
                               THEN [NoResp EXCEPT !.op = "saveImage",
                                        !.status = "error", !.io = "write"]
                               ELSE [NoResp EXCEPT !.op = "saveImage",
                                        !.status = "ok", !.id = c.id,
                                        !.records = <<newImage>>]
                    /\ hist' = IF w.threw THEN hist
                               ELSE [hist EXCEPT
                                        !.appended = @ \cup {newImage}]
    /\ pending' = Tail(pending)
    /\ UNCHANGED usedIds
    /\ UNCHANGED tokenVars
    /\ UNCHANGED authVars

\* deleteImage(id), up to its await: the file read.  A read that throws
\* makes the call fail with 'Failed to delete file'.
DeleteImageOf(id) ==
    /\ resp.op = "none"
    /\ Len(pending) < Cardinality(Callers)
    /\ \E create \in WriteOutcomes, read \in FsOutcomes :
        LET raw == getAllImagesRaw(file, images, create, read)
        IN  /\ file' = raw.file
            /\ images' = raw.images
            /\ IF raw.threw
               THEN /\ resp' = [NoResp EXCEPT !.op = "deleteImage",
                                   !.status = "error", !.id = id,
                                   !.io = raw.io]
                    /\ pending' = pending
               ELSE /\ resp' = resp
                    /\ pending' = Append(pending,
                            [op |-> "delete", id |-> id, data |-> NoData,
                             snapshot |-> raw.list])
    /\ UNCHANGED <<usedIds, hist>>
    /\ UNCHANGED tokenVars

\* deleteImage called with any id
DeleteImageCall ==
    /\ \E id \in Uuids : DeleteImageOf(id)
    /\ UNCHANGED authVars

\* a filter that keeps every record
Filtered_KeepAll(list, id) == list

\* images.filter(img => img.id !== id)
Filtered(list, id) == SelectSeq(list, LAMBDA img : Get(img, "id") # id)

\* a deleteImage that found nothing to delete and writes all the same
NothingDeleted_Never(kept, snapshot) == FALSE

\* images.length === initialLength
NothingDeleted(kept, snapshot) == Len(kept) = Len(snapshot)

\* deleteImage after its await: filter, and rewrite if a record went
DeleteImageResume ==
    /\ resp.op = "none"
    /\ pending # <<>>
    /\ Head(pending).op = "delete"
    /\ LET c == Head(pending)
           kept == Filtered(c.snapshot, c.id)
       IN  IF NothingDeleted(kept, c.snapshot)
           THEN /\ resp' = [NoResp EXCEPT !.op = "deleteImage",
                               !.status = "false", !.id = c.id]
                /\ UNCHANGED <<file, images, hist>>
           ELSE \E write \in WriteOutcomes :
                LET w == writeFileSync(write, kept, file, images)
                IN  /\ file' = w.file
                    /\ images' = w.images
                    /\ resp' = IF w.threw
                               THEN [NoResp EXCEPT !.op = "deleteImage",
                                        !.status = "error", !.id = c.id,
                                        !.io = "write"]
                               ELSE [NoResp EXCEPT !.op = "deleteImage",
                                        !.status = "true", !.id = c.id]
                    /\ hist' = IF w.threw THEN hist
                               ELSE [hist EXCEPT !.deleted = @ \cup {c.id}]
    /\ pending' = Tail(pending)
    /\ UNCHANGED usedIds
    /\ UNCHANGED tokenVars
    /\ UNCHANGED authVars

\* the caller has taken the result
Deliver ==
    /\ resp.op \notin {"none", "directCdn"}
    /\ resp' = NoResp
    /\ UNCHANGED <<file, images, usedIds, pending, hist>>
    /\ UNCHANGED tokenVars
    /\ UNCHANGED authVars

StoreNext ==
    \/ GetAllImages
    \/ GetImageById
    \/ SaveImageCall
    \/ SaveImageResume
    \/ DeleteImageCall
    \/ DeleteImageResume
    \/ Deliver

StoreSpec == StoreInit /\ [][StoreNext]_vars

-----------------------------------------------------------------------------
(* The direct-access routes of the server (the second half of               *)
(* securityUtils.js), on top of the store and the token functions.          *)

TokenExpirySec == 1     \* process.env.TOKEN_EXPIRY, in seconds
CdnUploads == 1         \* uploads in one run of the routes

\* TOKEN_EXPIRY, the default expiryTime of generateSecureToken
TOKEN_EXPIRY == Num(TokenExpirySec)

\* req.query.token when the request has no token parameter
NoToken == [isString |-> FALSE, chars |-> Undefined]

\* a check that lets every request through to verification
Falsy_Never(token) == FALSE

\* !token
Falsy(token) == token = NoToken \/ token = TokenStr(<<>>)

\* a token generateSecureToken made for the id in the past, its expiry one
\* second behind the clock by now
ExpiredToken(id) ==
    Forged(id, NatToStr(FloorSeconds(nowMs).val - 1), SECRET_KEY)

\* what a client can put in ?token=: nothing, an empty string, something
\* that is no string, the latest token issued, with or without a fourth
\* field, tokens made without the key, and expired tokens
QueryTokens ==
    {NoToken, NotAString, TokenStr(<<>>)}
    \cup (IF issued.status = "ok"
          THEN {TokenStr(issued.token),
                TokenStr(issued.token \o <<":", "x">>)}
          ELSE {})
    \cup {TokenStr(Forged(id, <<"9", "9">>, "X")) : id \in RecordIds}
    \cup {TokenStr(ExpiredToken(id)) : id \in RecordIds}

\* the JSON body of the 200 answer of GET /direct-cdn/:id
DirectCdnBody(imageId, image) ==
    [success |-> True, imageId |-> imageId,
     originalName |-> Get(image, "originalName"),
     directCdnUrl |-> Get(image, "cdnUrl")]

\* the record an upload of an earlier run of the server left in the file
StoredAtStart ==
    [id |-> <<"a">>, createdAt |-> <<"9000">>,
     fileType |-> getFileType(UploadPng.mimetype)] @@ UploadPng

\* the server starts on a file that holds one record; no token issued yet,
\* the secret key left to its default
CdnInit ==
    /\ file = "ok"
    /\ images = <<StoredAtStart>>
    /\ usedIds = {StoredAtStart.id}
    /\ pending = <<>>
    /\ resp = NoResp
    /\ hist = NoHist
    /\ nowMs = StartMs
    /\ apiSecretKeyEnv = EnvUnset
    /\ issued = NoIssue
    /\ lastVerify = NoVerify
    /\ galleryPasswordEnv = EnvUnset
    /\ sessions = [s \in Sids |-> NoSession]
    /\ inflight = <<>>
    /\ access = NoAccess

\* POST /upload, once the file is at Telegram: saveImage with the route's
\* fixed set of fields
PostUpload ==
    /\ Cardinality(usedIds \ {StoredAtStart.id}) < CdnUploads
    /\ SaveImageOf(UploadPng)
    /\ UNCHANGED authVars

\* the handler of GET /direct-cdn/:id/token: a token for a stored record
GetDirectCdnTokenBody ==
    /\ resp.op = "none"
    /\ lastVerify.status = "none"
    /\ \E imageId \in RecordIds, create \in WriteOutcomes, read \in FsOutcomes :
        LET all == getAllImagesRaw(file, images, create, read)
            image == getImageById(all, imageId, TRUE)
            r == generateSecureToken(imageId, TOKEN_EXPIRY)
        IN  /\ file' = all.file
            /\ images' = all.images
            /\ issued' = IF image.threw \/ image.records = <<>>
                          THEN issued
                          ELSE [status |-> IF r.threw THEN "error" ELSE "ok",
                                imageId |-> imageId, ttl |-> TOKEN_EXPIRY,
                                token |-> r.token, expiresAt |-> r.expiresAt,
                                atMs |-> nowMs]
    /\ UNCHANGED <<nowMs, apiSecretKeyEnv, lastVerify>>
    /\ UNCHANGED <<usedIds, pending, resp, hist>>

\* GET /direct-cdn/:id/token, past requireAuth
GetDirectCdnToken == GetDirectCdnTokenBody /\ UNCHANGED authVars

\* GET /direct-cdn/:id?token=...
GetDirectCdn ==
    /\ resp.op = "none"
    /\ lastVerify.status = "none"
    /\ \E imageId \in RecordIds, token \in QueryTokens :
        LET answer == [NoResp EXCEPT !.op = "directCdn", !.id = imageId]
            call == [status |-> "done", token |-> token, imageId |-> imageId,
                     result |-> verifySecureToken(token, imageId)]
        IN  IF Falsy(token)
            THEN /\ resp' = [answer EXCEPT !.status = "401"]
                 /\ lastVerify' = [call EXCEPT !.status = "notCalled",
                                                !.result = "false"]
                 /\ UNCHANGED <<file, images>>
            ELSE IF call.result # "true"
            THEN /\ resp' = [answer EXCEPT !.status = "403"]
                 /\ lastVerify' = call
                 /\ UNCHANGED <<file, images>>
            ELSE \E create \in WriteOutcomes, read \in FsOutcomes :
                 LET all == getAllImagesRaw(file, images, create, read)
                     image == getImageById(all, imageId, TRUE)
                 IN  /\ lastVerify' = call
                     /\ file' = all.file
                     /\ images' = all.images
                     /\ resp' =
                            IF image.threw
                            THEN [answer EXCEPT !.status = "500",
                                     !.raw = TRUE, !.io = all.io]
                            ELSE IF image.records = <<>>
                            THEN [answer EXCEPT !.status = "404",
                                     !.raw = TRUE]
                            ELSE [answer EXCEPT !.status = "200",
                                     !.raw = TRUE,
                                     !.records =
                                        <<DirectCdnBody(imageId,
                                                        image.records[1])>>]
    /\ UNCHANGED <<nowMs, apiSecretKeyEnv, issued>>
    /\ UNCHANGED <<usedIds, pending, hist>>
    /\ UNCHANGED authVars

\* the answer of GET /direct-cdn/:id has been sent
DirectCdnAnswered ==
    /\ resp.op = "directCdn"
    /\ resp' = NoResp
    /\ lastVerify' = NoVerify
    /\ UNCHANGED <<nowMs, apiSecretKeyEnv, issued>>
    /\ UNCHANGED <<file, images, usedIds, pending, hist>>
    /\ UNCHANGED authVars

CdnNext ==
    \/ PostUpload
    \/ SaveImageResume
    \/ DeleteImageCall
    \/ DeleteImageResume
    \/ Deliver
    \/ GetDirectCdnToken
    \/ GetDirectCdn
    \/ DirectCdnAnswered

CdnSpec == CdnInit /\ [][CdnNext]_vars


-----------------------------------------------------------------------------
(* Sessions: POST /api/login, POST /api/logout and requireAuth in front of *)
(* the four protected routes (the first half of the routes of              *)
(* securityUtils.js).  The session store is express-session's default      *)
(* MemoryStore, whose destroy() removes the session before it returns.     *)

MaxRequests == 2        \* requests that reach requireAuth in one run

DefaultGalleryPassword == "SecureGallery123!"

\* const GALLERY_PASSWORD = process.env.GALLERY_PASSWORD || 'SecureGallery123!'
GALLERY_PASSWORD == EnvOr(galleryPasswordEnv, DefaultGalleryPassword)

\* req.body.password when the body has no password field
NoPassword == [given |-> FALSE, val |-> ""]

\* what a client can send as req.body.password: nothing, an empty string,
\* the default password, and the one the environment can hold
Passwords ==
    {NoPassword}
    \cup {[given |-> TRUE, val |-> v] : v \in {"", "K", DefaultGalleryPassword}}

\* password === GALLERY_PASSWORD
PasswordMatches(password) ==
    password.given /\ password.val = GALLERY_PASSWORD

\* a middleware that lets every session through
IsAuthenticated_Always(session) == TRUE

\* req.session && req.session.isAuthenticated
IsAuthenticated(session) == session.isAuthenticated

\* what requireAuth looks at besides the session: X-Requested-With, Accept
\* and Content-Type
PlainHeaders == [xhr |-> FALSE, acceptJson |-> FALSE, multipart |-> FALSE]
RequestHeaders ==
    {PlainHeaders, [PlainHeaders EXCEPT !.xhr = TRUE],
     [PlainHeaders EXCEPT !.acceptJson = TRUE]}
MultipartHeaders == [PlainHeaders EXCEPT !.multipart = TRUE]

\* req.path.startsWith('/api/'), the path given as its segments
StartsWithApi(path) == Len(path) >= 2 /\ path[1] = "api"

\* requireAuth: "next" calls the handler, "401" is the JSON refusal,
\* "redirect" is res.redirect('/login.html')
requireAuth(session, method, path, headers) ==
    IF IsAuthenticated(session) THEN "next"
    ELSE IF \/ headers.xhr
            \/ StartsWithApi(path)
            \/ headers.acceptJson
            \/ method = "POST"
            \/ headers.multipart
         THEN "401"
         ELSE "redirect"

\* the record of a request that has gone through requireAuth
Seen(sid, route, outcome) ==
    [n |-> access.n + 1, sid |-> sid, route |-> route, outcome |-> outcome]

\* the server starts on a file that holds one record; nobody is logged in
AuthInit ==
    /\ file = "ok"
    /\ images = <<StoredAtStart>>
    /\ usedIds = {StoredAtStart.id}
    /\ pending = <<>>
    /\ resp = NoResp
    /\ hist = NoHist
    /\ nowMs = StartMs
    /\ apiSecretKeyEnv = EnvUnset
    /\ issued = NoIssue
    /\ lastVerify = NoVerify
    /\ galleryPasswordEnv \in EnvValues
    /\ sessions = [s \in Sids |-> NoSession]
    /\ inflight = <<>>
    /\ access = NoAccess

\* POST /api/login
ApiLogin ==
    /\ resp.op = "none"
    /\ \E sid \in Sids, password \in Passwords :
        /\ sessions' = IF PasswordMatches(password)
                       THEN [sessions EXCEPT
                                ![sid] = [isAuthenticated |-> TRUE]]
                       ELSE sessions
        /\ resp' = [NoResp EXCEPT !.op = "login",
                       !.status = IF PasswordMatches(password)
                                  THEN "200" ELSE "401"]
        /\ hist' = [hist EXCEPT !.loggedIn =
                       IF password = [given |-> TRUE, val |-> GALLERY_PASSWORD]
                       THEN @ \cup {sid} ELSE @]
    /\ UNCHANGED <<file, images, usedIds, pending>>
    /\ UNCHANGED tokenVars
    /\ UNCHANGED <<galleryPasswordEnv, inflight, access>>

\* POST /api/logout: req.session.destroy()
ApiLogout ==
    /\ resp.op = "none"
    /\ \E sid \in Sids :
        /\ sessions' = [sessions EXCEPT ![sid] = NoSession]
        /\ hist' = [hist EXCEPT !.loggedIn = @ \ {sid}]
    /\ resp' = [NoResp EXCEPT !.op = "logout", !.status = "200"]
    /\ UNCHANGED <<file, images, usedIds, pending>>
    /\ UNCHANGED tokenVars
    /\ UNCHANGED <<galleryPasswordEnv, inflight, access>>

\* POST /upload: requireAuth, then the handler up to its first await, the
\* upload to Telegram
UploadRequest ==
    /\ access.n < MaxRequests
    /\ Len(inflight) < Cardinality(Callers)
    /\ \E sid \in Sids :
        LET outcome == requireAuth(sessions[sid], "POST", <<"upload">>,
                                   MultipartHeaders)
        IN  /\ access' = Seen(sid, "upload", outcome)
            /\ inflight' = IF outcome = "next"
                           THEN Append(inflight,
                                   [route |-> "upload", sid |-> sid,
                                    id |-> <<>>])
                           ELSE inflight
    /\ UNCHANGED storeVars
    /\ UNCHANGED tokenVars
    /\ UNCHANGED <<galleryPasswordEnv, sessions>>

\* the outcomes of a call to Telegram
TelegramOutcomes == {"done", "fails"}

\* the upload handler after uploadToTelegram: saveImage is called, or the
\* error goes to the error handler
UploadToTelegramReturns ==
    /\ inflight # <<>>
    /\ Head(inflight).route = "upload"
    /\ inflight' = Tail(inflight)
    /\ \E telegram \in TelegramOutcomes :
        IF telegram = "fails"
        THEN /\ resp.op = "none"
             /\ resp' = [NoResp EXCEPT !.op = "upload", !.status = "500"]
             /\ UNCHANGED <<file, images, usedIds, pending, hist>>
             /\ UNCHANGED tokenVars
        ELSE SaveImageOf(UploadPng)
    /\ UNCHANGED <<galleryPasswordEnv, sessions, access>>

\* GET /images: requireAuth, then getAllImages
ImagesRequest ==
    /\ access.n < MaxRequests
    /\ \E sid \in Sids, headers \in RequestHeaders :
        LET outcome == requireAuth(sessions[sid], "GET", <<"images">>,
                                   headers)
        IN  /\ access' = Seen(sid, "images", outcome)
            /\ IF outcome = "next"
               THEN GetAllImagesBody
               ELSE UNCHANGED storeVars /\ UNCHANGED tokenVars
    /\ UNCHANGED <<galleryPasswordEnv, sessions, inflight>>

\* GET /direct-cdn/:id/token: requireAuth, then the handler
TokenRequest ==
    /\ access.n < MaxRequests
    /\ \E sid \in Sids, headers \in RequestHeaders :
        LET outcome == requireAuth(sessions[sid], "GET",
                                   <<"direct-cdn", "id", "token">>, headers)
        IN  /\ access' = Seen(sid, "token", outcome)
            /\ IF outcome = "next"
               THEN GetDirectCdnTokenBody
               ELSE UNCHANGED storeVars /\ UNCHANGED tokenVars
    /\ UNCHANGED <<galleryPasswordEnv, sessions, inflight>>

\* DELETE /images/:id: requireAuth, then the handler up to the call to
\* Telegram: the record is looked up, 404 when there is none
DeleteRequest ==
    /\ access.n < MaxRequests
    /\ Len(inflight) < Cardinality(Callers)
    /\ \E sid \in Sids, headers \in RequestHeaders, imageId \in RecordIds :
        LET outcome == requireAuth(sessions[sid], "DELETE",
                                   <<"images", "id">>, headers)
        IN  /\ access' = Seen(sid, "delete", outcome)
            /\ IF outcome = "next"
               THEN /\ resp.op = "none"
                    /\ \E create \in WriteOutcomes, read \in FsOutcomes :
                        LET all == getAllImagesRaw(file, images, create, read)
                            image == getImageById(all, imageId, TRUE)
                            answer == [NoResp EXCEPT !.op = "delete",
                                          !.id = imageId, !.raw = TRUE,
                                          !.io = all.io]
                        IN  /\ file' = all.file
                            /\ images' = all.images
                            /\ resp' = IF image.threw
                                       THEN [answer EXCEPT !.status = "500"]
                                       ELSE IF image.records = <<>>
                                       THEN [answer EXCEPT !.status = "404"]
                                       ELSE resp
                            /\ inflight' =
                                   IF image.threw \/ image.records = <<>>
                                   THEN inflight
                                   ELSE Append(inflight,
                                           [route |-> "delete", sid |-> sid,
                                            id |-> imageId])
                    /\ UNCHANGED <<usedIds, pending, hist>>
                    /\ UNCHANGED tokenVars
               ELSE /\ UNCHANGED storeVars
                    /\ UNCHANGED tokenVars
                    /\ UNCHANGED inflight
    /\ UNCHANGED <<galleryPasswordEnv, sessions>>

\* the delete handler after deleteFromTelegram: deleteImage is called, or
\* the error goes to the error handler
DeleteFromTelegramReturns ==
    /\ inflight # <<>>
    /\ Head(inflight).route = "delete"
    /\ inflight' = Tail(inflight)
    /\ \E telegram \in TelegramOutcomes :
        IF telegram = "fails"
        THEN /\ resp.op = "none"
             /\ resp' = [NoResp EXCEPT !.op = "delete", !.status = "500",
                            !.id = Head(inflight).id]
             /\ UNCHANGED <<file, images, usedIds, pending, hist>>
             /\ UNCHANGED tokenVars
        ELSE DeleteImageOf(Head(inflight).id)
    /\ UNCHANGED <<galleryPasswordEnv, sessions, access>>

AuthNext ==
    \/ ApiLogin
    \/ ApiLogout
    \/ UploadRequest
    \/ UploadToTelegramReturns
    \/ SaveImageResume
    \/ ImagesRequest
    \/ TokenRequest
    \/ DeleteRequest
    \/ DeleteFromTelegramReturns
    \/ DeleteImageResume
    \/ Deliver

AuthSpec == AuthInit /\ [][AuthNext]_vars

-----
(* Properties of the store, checked under StoreSpec *)

SanitizedRead ==
    /\ resp.op \in {"getAllImages", "getImageById"}
    /\ ~resp.raw
    /\ resp.status = "ok"

\* C1: every record a sanitized read (getAllImages, getImageById with
\* raw = false) returns has none of fileId, filePath, cdnUrl, messageId,
\* whatever the stored record carries; only id, createdAt, originalName,
\* mimetype, size, isDocument and fileType appear.
C1_SanitizedHasNoLocator ==
    SanitizedRead =>
        \A i \in 1..Len(resp.records) :
            /\ DOMAIN resp.records[i] \cap SensitiveFields = {}
            /\ DOMAIN resp.records[i] \subseteq SanitizedFields

C1_Witness ==
    /\ SanitizedRead
    /\ resp.op = "getImageById"
    /\ resp.records # <<>>
    /\ \E i \in 1..Len(images) :
        /\ Get(images[i], "id") = resp.id
        /\ SensitiveFields \cap DOMAIN images[i] # {}
        /\ "note" \in DOMAIN images[i]

\* the records of a collection, as a set
Records(list) == {list[i] : i \in 1..Len(list)}

\* C11: no append is lost.  Once every saveImage call has returned, each
\* record a successful saveImage appended is in the collection, however
\* the calls interleaved (no record has been deleted, no write has failed
\* half way).
C11_NoAppendLost ==
    (pending = <<>> /\ file = "ok" /\ hist.deleted = {}) =>
        hist.appended \subseteq Records(images)

\* saveImage has just returned an id
SaveReturned == resp.op = "saveImage" /\ resp.status = "ok"

\* getImageById(id, raw) on the collection as it stands, the file readable
ReadBack(id, raw) ==
    getImageById(getAllImagesRaw(file, images, "done", "done"), id, raw)

\* C12: a record appended with saveImage and read back by the returned id
\* comes back as appended: the sanitized read gives every allow-listed
\* field (id, createdAt, originalName, mimetype, size, isDocument, fileType)
\* as appended and no locator field, the raw read gives the record as
\* appended, locator fields included.
C12_ReadBackAsAppended ==
    SaveReturned =>
        LET appended == resp.records[1]
            sanitized == ReadBack(resp.id, FALSE)
            rawRead == ReadBack(resp.id, TRUE)
        IN  /\ ~sanitized.threw
            /\ Len(sanitized.records) = 1
            /\ \A f \in SanitizedFields :
                    Get(sanitized.records[1], f) = Get(appended, f)
            /\ DOMAIN sanitized.records[1] \cap SensitiveFields = {}
            /\ ~rawRead.threw
            /\ rawRead.records = <<appended>>

\* the record the saveImage that has just returned wrote last into the file
Persisted == images[Len(images)]

\* C13: the id saveImage returns is the id of the record it persisted, and
\* that record's id, createdAt and fileType are the store's own (the fresh
\* uuid, the time of the call, the classification of its mimetype), whatever
\* fields the input carries.
C13_GeneratedFieldsFromStore ==
    SaveReturned =>
        /\ Get(Persisted, "id") = resp.id
        /\ resp.id \in usedIds
        /\ Get(Persisted, "createdAt") = NumToStr(Num(nowMs))
        /\ Get(Persisted, "fileType") = getFileType(Get(Persisted, "mimetype"))

\* C14: whatever appends and deletes have happened, the records in the
\* store have pairwise distinct ids, and a record just appended never has
\* the id of a record that was deleted before.
C14_IdsDistinctNeverReused ==
    /\ \A i, j \in 1..Len(images) :
            i # j => Get(images[i], "id") # Get(images[j], "id")
    /\ SaveReturned => Get(Persisted, "id") \notin hist.deleted

\* the deleteImage call that resumes in this step, if one does
DeleteResumes ==
    /\ pending # <<>>
    /\ Head(pending).op = "delete"
    /\ pending' = Tail(pending)

\* a record of the collection has the id
Holds(list, id) == \E i \in 1..Len(list) : Get(list[i], "id") = id

\* the deleteImage call that reads the store and suspends in this step
DeleteSuspends ==
    /\ Len(pending') = Len(pending) + 1
    /\ pending'[Len(pending')].op = "delete"

\* C15: a deleteImage of an id that no record had when the call read the
\* store returns false, and neither its read nor its return changes the
\* records in the file: it rewrites nothing.
C15_DeleteAbsentChangesNothing ==
    [][/\ DeleteSuspends => images' = images
       /\ (DeleteResumes
              /\ ~Holds(Head(pending).snapshot, Head(pending).id)) =>
            /\ resp'.op = "deleteImage"
            /\ resp'.status = "false"
            /\ resp'.id = Head(pending).id
            /\ images' = images
            /\ file' = file]_vars

C15_Witness ==
    /\ resp.op = "deleteImage"
    /\ resp.status = "false"
    /\ Len(images) = 2
    /\ pending # <<>>

Content(f, list) == [parses |-> f # "truncated", list |-> list]

\* a saveImage or deleteImage call returns or raises in this step
MutationEnds ==
    /\ resp.op = "none"
    /\ resp'.op \in {"saveImage", "deleteImage"}

\* C17: no partial mutation is visible.  A saveImage or deleteImage that
\* raises leaves the file parsing to the same records as just before,
\* also when it is the rewrite that throws; one that returns leaves a
\* file that parses to the whole collection the call read with its one
\* change applied (nothing changed for a delete that returns false).
C17_NoPartialMutation ==
    [][MutationEnds =>
        IF resp'.status = "error"
        THEN Content(file', images') = Content(file, images)
        ELSE /\ file' = "ok"
             /\ pending # <<>>
             /\ LET c == Head(pending)
                IN  images' =
                        CASE resp'.status = "ok" ->
                                Append(c.snapshot, resp'.records[1])
                          [] resp'.status = "true" ->
                                Filtered(c.snapshot, c.id)
                          [] resp'.status = "false" -> images]_vars

\* a read operation has just answered
ReadAnswered == resp.op \in {"getAllImages", "getImageById"}

\* C18: getImageById gives null exactly when the file was read and parsed
\* and no record in it has the requested id, and then it does not raise;
\* when the file could not be created, read or parsed, getImageById and
\* getAllImages raise, and give neither null nor an empty list.
C18_NullIffReadableAndAbsent ==
    /\ resp.op = "getImageById" =>
            /\ resp.status = "null" <=>
                    (resp.io = "none" /\ ~Holds(images, resp.id))
            /\ resp.status = "ok" <=>
                    (resp.io = "none" /\ Holds(images, resp.id))
    /\ ReadAnswered =>
            /\ resp.io # "none" => resp.status = "error"
            /\ file = "truncated" => resp.status = "error"

C18_Witness ==
    /\ resp.op = "getImageById"
    /\ resp.status = "null"
    /\ ~resp.raw
    /\ Len(images) = 2
    /\ hist.deleted # {}

-----------------------------------------------------------------------------
(* Properties of the direct-access route, checked under CdnSpec *)

\* GET /direct-cdn/:id answers in this step
DirectCdnAnswers ==
    /\ resp.op = "none"
    /\ resp'.op = "directCdn"

\* the request carries no token: none at all, or an empty one
TokenMissing(token) == token \in {NoToken, TokenStr(<<>>)}

\* C19: GET /direct-cdn/:id puts a record's cdnUrl in its answer only when
\* verifySecureToken has returned true for the token of that request and
\* the id of that record; a request without a token is answered 401 and
\* one whose token fails verification 403, in both cases with an empty
\* answer and without the store's file being read or created.
C19_LocatorOnlyAfterVerify ==
    [][DirectCdnAnswers =>
        /\ resp'.id = lastVerify'.imageId
        /\ resp'.records # <<>> =>
                /\ resp'.status = "200"
                /\ lastVerify'.status = "done"
                /\ lastVerify'.result = "true"
                /\ verifyCaught(lastVerify'.token, resp'.id, nowMs,
                                SECRET_KEY) = "true"
                /\ \E i \in 1..Len(images) :
                        /\ Get(images[i], "id") = resp'.id
                        /\ Get(resp'.records[1], "directCdnUrl") =
                                Get(images[i], "cdnUrl")
        /\ TokenMissing(lastVerify'.token) <=> resp'.status = "401"
        /\ (/\ ~TokenMissing(lastVerify'.token)
            /\ verifyCaught(lastVerify'.token, resp'.id, nowMs,
                            SECRET_KEY) # "true") <=> resp'.status = "403"
        /\ resp'.status \in {"401", "403"} =>
                /\ resp'.records = <<>>
                /\ ~resp'.raw
                /\ file' = file
                /\ images' = images]_vars

C19_Witness ==
    /\ resp.op = "directCdn"
    /\ resp.status = "200"
    /\ issued.status = "ok"
    /\ lastVerify.token = TokenStr(issued.token)
    /\ Get(resp.records[1], "directCdnUrl") = <<"tg://1">>

\* C20: once deleteImage has deleted the record of an id, a request to
\* GET /direct-cdn/:id for that id whose token passes verification is
\* answered 404 with no locator, in every later state (the store being
\* readable).
C20_DeletedStaysNotFound ==
    (/\ resp.op = "directCdn"
     /\ resp.id \in hist.deleted
     /\ lastVerify.status = "done"
     /\ lastVerify.result = "true"
     /\ resp.io = "none") =>
        /\ resp.status = "404"
        /\ resp.records = <<>>

-----------------------------------------------------------------------------
(* Properties of the sessions, checked under AuthSpec                      *)

\* a step in which a request reaches requireAuth
ReachesRequireAuth == access'.n = access.n + 1

\* a step in which a handler admitted earlier goes on after an await
HandlerGoesOn ==
    \/ Len(inflight') < Len(inflight)
    \/ Len(pending') < Len(pending)

\* a step in which the handler of a protected route starts: it stays
\* behind awaiting Telegram, it answers from the store, or it issues a token
HandlerStarts ==
    /\ ~HandlerGoesOn
    /\ \/ Len(inflight') > Len(inflight)
       \/ issued' # issued
       \/ (resp.op = "none" /\ resp'.op \in {"getAllImages", "delete"})

\* what requireAuth decides for a request, and what starts a handler: a
\* handler is started only by a request whose session, when the request
\* reaches requireAuth, has logged in with the gallery password and has not
\* logged out since; a request arriving in any other state is answered 401
\* or redirected, and changes neither the store nor the requests in
\* progress and issues no token; outside the protected handlers (login,
\* logout, taking an answer) the store does not change and no token is
\* issued
DecidedOnArrival ==
    /\ ReachesRequireAuth =>
            /\ access'.outcome \in {"next", "401", "redirect"}
            /\ access'.outcome = "next" => access'.sid \in hist.loggedIn
            /\ access'.sid \notin hist.loggedIn =>
                    /\ access'.outcome \in {"401", "redirect"}
                    /\ UNCHANGED <<file, images, usedIds, pending, resp>>
                    /\ UNCHANGED <<inflight, issued>>
    /\ HandlerStarts =>
            /\ ReachesRequireAuth
            /\ access'.sid \in hist.loggedIn
    /\ (file' # file \/ images' # images \/ usedIds' # usedIds
            \/ issued' # issued) =>
            \/ ReachesRequireAuth /\ access'.sid \in hist.loggedIn
            \/ HandlerGoesOn

\* C21 as stated: the handlers behind requireAuth (upload, list images,
\* token issuance, delete image) run only while the session is
\* authenticated, after a login with the gallery password and before any
\* later logout: they start only then, a handler that goes on after its
\* call to Telegram does so only while its session is still logged in, and
\* while no session is logged in the store is not changed and no token is
\* issued; a request in any other state is answered 401 or redirected.
C21_HandlersOnlyWhileAuthenticated ==
    [][/\ DecidedOnArrival
       /\ Len(inflight') < Len(inflight) =>
            Head(inflight).sid \in hist.loggedIn
       /\ (file' # file \/ images' # images \/ issued' # issued) =>
            hist.loggedIn # {}]_vars

\* C21, amended: requireAuth admits a request to a protected route only if
\* the session is authenticated when the request reaches it; a request
\* arriving in any other state is answered 401 or redirected to the login
\* page and itself changes nothing and issues no token.  (An admitted
\* handler is not checked again after its awaits.)
C21_AdmittedOnlyWhenLoggedIn == [][DecidedOnArrival]_vars

\* a session logged in and uploaded, its record was stored, everybody
\* logged out, and a delete request was then sent to the login page
C21_Witness ==
    /\ hist.appended # {}
    /\ hist.loggedIn = {}
    /\ access.route = "delete"
    /\ access.outcome = "redirect"
    /\ Len(images) = 2

====
